---------------------------- MODULE Spec2Model ----------------------------
(***************************************************************************)
(* A model of the QAI Hub helper scripts: the batch exporter               *)
(* (scripts/qaihub_download_models.py) and the compile helper              *)
(* (scripts/qaihub_compile.py).                                            *)
(*                                                                         *)
(* Python strings are modelled as sequences of one-character strings, so   *)
(* that lower(), replace(), strip(), split(), slicing and the `in`         *)
(* substring test are computed character by character as Python computes   *)
(* them.                                                                   *)
(***************************************************************************)
EXTENDS Integers, Sequences, FiniteSets, TLC

(***************************************************************************)
(* str primitives                                                          *)
(***************************************************************************)

\* The characters used, in increasing code point order (ASCII).
ASCII ==
    <<"\t","\n"," ","(",")","+","-",".","/",
      "0","1","2","3","4","5","6","7","8","9",":",
      "A","B","C","D","E","F","G","H","I","J","K","L","M",
      "N","O","P","Q","R","S","T","U","V","W","X","Y","Z","_",
      "a","b","c","d","e","f","g","h","i","j","k","l","m",
      "n","o","p","q","r","s","t","u","v","w","x","y","z","|">>

\* ord(c), up to a monotone renumbering.
Ord(c) == CHOOSE i \in 1..Len(ASCII) : ASCII[i] = c

UPPERCASE ==
    <<"A","B","C","D","E","F","G","H","I","J","K","L","M",
      "N","O","P","Q","R","S","T","U","V","W","X","Y","Z">>

LOWERCASE ==
    <<"a","b","c","d","e","f","g","h","i","j","k","l","m",
      "n","o","p","q","r","s","t","u","v","w","x","y","z">>

LowerChar(c) ==
    IF \E i \in 1..26 : UPPERCASE[i] = c
    THEN LOWERCASE[CHOOSE i \in 1..26 : UPPERCASE[i] = c]
    ELSE c

\* s.lower()
RECURSIVE Lower(_)
Lower(s) ==
    IF s = << >> THEN << >> ELSE <<LowerChar(Head(s))>> \o Lower(Tail(s))

\* s.replace(a, b) for one-character a and b
RECURSIVE Replace(_, _, _)
Replace(s, a, b) ==
    IF s = << >> THEN << >>
    ELSE <<IF Head(s) = a THEN b ELSE Head(s)>> \o Replace(Tail(s), a, b)

\* s.startswith(p)
StartsWith(s, p) == Len(p) <= Len(s) /\ SubSeq(s, 1, Len(p)) = p

\* s[i:] starts with p, i counted from 0
StartsWithAt(s, i, p) ==
    i + Len(p) <= Len(s) /\ SubSeq(s, i + 1, i + Len(p)) = p

\* needle in hay
Contains(hay, needle) ==
    \E i \in 0..(Len(hay) - Len(needle)) : StartsWithAt(hay, i, needle)

\* str.isspace() for one character
IsSpace(c) == c \in {" ", "\t", "\n"}

RECURSIVE LStrip(_)
LStrip(s) ==
    IF s # << >> /\ IsSpace(Head(s)) THEN LStrip(Tail(s)) ELSE s

RECURSIVE RStrip(_)
RStrip(s) ==
    IF s # << >> /\ IsSpace(s[Len(s)])
    THEN RStrip(SubSeq(s, 1, Len(s) - 1))
    ELSE s

\* s.strip()
Strip(s) == RStrip(LStrip(s))

\* a < b for str (lexicographic by code point)
RECURSIVE StrLess(_, _)
StrLess(a, b) ==
    IF a = << >> THEN b # << >>
    ELSE IF b = << >> THEN FALSE
    ELSE IF Head(a) = Head(b) THEN StrLess(Tail(a), Tail(b))
    ELSE Ord(Head(a)) < Ord(Head(b))

\* sorted(S) for a set S of str
RECURSIVE Sorted(_)
Sorted(S) ==
    IF S = {} THEN << >>
    ELSE LET m == CHOOSE x \in S : \A y \in S \ {x} : StrLess(x, y)
         IN  <<m>> \o Sorted(S \ {m})

\* x in xs, for a list xs
InList(x, xs) == \E i \in 1..Len(xs) : xs[i] = x

\* Python's None. No str equals it: every element of a str is one character.
None == <<"None">>

(***************************************************************************)
(* MODEL_ALIASES and the names it mentions                                 *)
(***************************************************************************)


k_stable_diffusion_v2_1_h ==   \* 'stable-diffusion-v2.1'
    <<"s","t","a","b","l","e","-","d","i","f","f","u","s","i","o","n","-","v",
      "2",".","1">>

k_stable_diffusion_v2_1_u ==   \* 'stable_diffusion_v2.1'
    <<"s","t","a","b","l","e","_","d","i","f","f","u","s","i","o","n","_","v",
      "2",".","1">>

k_sd_v2_1 ==   \* 'sd-v2.1'
    <<"s","d","-","v","2",".","1">>

k_stable_diffusion_v1_5_h ==   \* 'stable-diffusion-v1.5'
    <<"s","t","a","b","l","e","-","d","i","f","f","u","s","i","o","n","-","v",
      "1",".","5">>

k_stable_diffusion_v1_5_u ==   \* 'stable_diffusion_v1.5'
    <<"s","t","a","b","l","e","_","d","i","f","f","u","s","i","o","n","_","v",
      "1",".","5">>

k_sd_v1_5 ==   \* 'sd-v1.5'
    <<"s","d","-","v","1",".","5">>

k_llama_v3_2_3b_instruct ==   \* 'llama-v3.2-3b-instruct'
    <<"l","l","a","m","a","-","v","3",".","2","-","3","b","-","i","n","s","t",
      "r","u","c","t">>

k_llama_3_2_3b ==   \* 'llama-3.2-3b'
    <<"l","l","a","m","a","-","3",".","2","-","3","b">>

k_llama3_2_3b ==   \* 'llama3.2-3b'
    <<"l","l","a","m","a","3",".","2","-","3","b">>

k_controlnet_canny ==   \* 'controlnet-canny'
    <<"c","o","n","t","r","o","l","n","e","t","-","c","a","n","n","y">>

k_controlnet ==   \* 'controlnet'
    <<"c","o","n","t","r","o","l","n","e","t">>

m_stable_diffusion_v2_1 ==   \* 'stable_diffusion_v2_1'
    <<"s","t","a","b","l","e","_","d","i","f","f","u","s","i","o","n","_","v",
      "2","_","1">>

m_stable_diffusion_v1_5 ==   \* 'stable_diffusion_v1_5'
    <<"s","t","a","b","l","e","_","d","i","f","f","u","s","i","o","n","_","v",
      "1","_","5">>

m_llama_v3_2_3b_instruct ==   \* 'llama_v3_2_3b_instruct'
    <<"l","l","a","m","a","_","v","3","_","2","_","3","b","_","i","n","s","t",
      "r","u","c","t">>

m_controlnet_canny ==   \* 'controlnet_canny'
    <<"c","o","n","t","r","o","l","n","e","t","_","c","a","n","n","y">>

\* The dict literal, as its (key, value) items in source order.
MODEL_ALIASES ==
    << <<k_stable_diffusion_v2_1_h, m_stable_diffusion_v2_1>>,
       <<k_stable_diffusion_v2_1_u, m_stable_diffusion_v2_1>>,
       <<k_sd_v2_1, m_stable_diffusion_v2_1>>,
       <<k_stable_diffusion_v1_5_h, m_stable_diffusion_v1_5>>,
       <<k_stable_diffusion_v1_5_u, m_stable_diffusion_v1_5>>,
       <<k_sd_v1_5, m_stable_diffusion_v1_5>>,
       <<k_llama_v3_2_3b_instruct, m_llama_v3_2_3b_instruct>>,
       <<k_llama_3_2_3b, m_llama_v3_2_3b_instruct>>,
       <<k_llama3_2_3b, m_llama_v3_2_3b_instruct>>,
       <<k_controlnet_canny, m_controlnet_canny>>,
       <<k_controlnet, m_controlnet_canny>> >>

\* key in MODEL_ALIASES
InAliases(key) == \E i \in 1..Len(MODEL_ALIASES) : MODEL_ALIASES[i][1] = key

\* MODEL_ALIASES[key]
AliasOf(key) ==
    MODEL_ALIASES[CHOOSE i \in 1..Len(MODEL_ALIASES) : MODEL_ALIASES[i][1] = key][2]

(***************************************************************************)
(* resolve_model_name                                                      *)
(***************************************************************************)

\* requested.lower().replace("-", "_").replace(".", "_")
Normalize(requested) == Replace(Replace(Lower(requested), "-", "_"), ".", "_")

\* requested.lower() alone: the underscores of the request are kept.
AliasKey_keeps_underscores(requested) == Lower(requested)

\* requested.lower().replace("_", "-")
AliasKey(requested) == Replace(Lower(requested), "_", "-")

\* The first model of the list, related to the name or not.
FuzzyMatch_first(normalized, available) ==
    IF available = << >> THEN None ELSE available[1]

\* The fuzzy loop: the first model of the list with a substring relation
\* to the normalized name, in either direction; None when there is none.
FuzzyMatch(normalized, available) ==
    LET hit(i) == \/ Contains(available[i], normalized)
                  \/ Contains(normalized, available[i])
    IN  IF \E i \in 1..Len(available) : hit(i)
        THEN available[CHOOSE i \in 1..Len(available) :
                           hit(i) /\ \A j \in 1..(i - 1) : ~hit(j)]
        ELSE None

\* An alias is returned without looking for it in the catalog.
resolve_alias_unchecked(requested, available) ==
    LET normalized == Normalize(requested)
        alias_key  == AliasKey(requested)
    IN  IF InList(normalized, available) THEN normalized
        ELSE IF InAliases(alias_key) THEN AliasOf(alias_key)
        ELSE IF InAliases(normalized) THEN AliasOf(normalized)
        ELSE FuzzyMatch(normalized, available)

\* The alias table consulted before the direct match.
resolve_alias_first(requested, available) ==
    LET normalized == Normalize(requested)
        alias_key  == AliasKey(requested)
    IN  IF InAliases(alias_key) /\ InList(AliasOf(alias_key), available)
        THEN AliasOf(alias_key)
        ELSE IF InList(normalized, available) THEN normalized
        ELSE IF InAliases(normalized) /\ InList(AliasOf(normalized), available)
             THEN AliasOf(normalized)
        ELSE FuzzyMatch(normalized, available)

resolve_model_name(requested, available) ==
    LET normalized == Normalize(requested)
        alias_key  == AliasKey(requested)
    IN  IF InList(normalized, available) THEN normalized
        ELSE IF InAliases(alias_key) /\ InList(AliasOf(alias_key), available)
             THEN AliasOf(alias_key)
        ELSE IF InAliases(normalized) /\ InList(AliasOf(normalized), available)
             THEN AliasOf(normalized)
        ELSE FuzzyMatch(normalized, available)

(***************************************************************************)
(* auto_select_device                                                      *)
(***************************************************************************)

w_Snapdragon ==   \* 'Snapdragon'
    <<"S","n","a","p","d","r","a","g","o","n">>

w_Samsung ==   \* 'Samsung'
    <<"S","a","m","s","u","n","g">>

w_Google ==   \* 'Google'
    <<"G","o","o","g","l","e">>

w_Galaxy ==   \* 'Galaxy'
    <<"G","a","l","a","x","y">>

w_Pixel ==   \* 'Pixel'
    <<"P","i","x","e","l">>

w_Device ==   \* 'Device'
    <<"D","e","v","i","c","e">>

w_Snapdragon_X_Elite ==   \* 'Snapdragon X Elite'
    <<"S","n","a","p","d","r","a","g","o","n"," ","X"," ","E","l","i","t",
      "e">>

w_Windows ==   \* 'Windows'
    <<"W","i","n","d","o","w","s">>

\* s.split(sep) for a one-character sep
RECURSIVE Split(_, _)
Split(s, sep) ==
    IF \E i \in 1..Len(s) : s[i] = sep
    THEN LET i == CHOOSE k \in 1..Len(s) :
                      s[k] = sep /\ \A j \in 1..(k - 1) : s[j] # sep
         IN  <<SubSeq(s, 1, i - 1)>> \o Split(SubSeq(s, i + 1, Len(s)), sep)
    ELSE <<s>>

\* line.split()[0] for a line that is stripped and not empty
FirstToken(line) ==
    IF \E i \in 1..Len(line) : IsSpace(line[i])
    THEN SubSeq(line, 1,
                (CHOOSE k \in 1..Len(line) :
                     IsSpace(line[k]) /\ \A j \in 1..(k - 1) : ~IsSpace(line[j]))
                - 1)
    ELSE line

\* The alternatives of r'(Snapdragon[^\|]+|Samsung[^\|]+|Google[^\|]+)'.
BRANDS == <<w_Snapdragon, w_Samsung, w_Google>>

\* The pattern matches at offset i: a brand word, then at least one
\* character that is not "|".
BrandMatchesAt(line, i) ==
    \E b \in 1..Len(BRANDS) :
        /\ StartsWithAt(line, i, BRANDS[b])
        /\ i + Len(BRANDS[b]) < Len(line)
        /\ line[i + Len(BRANDS[b]) + 1] # "|"

\* re.search(pattern, line): the leftmost match, which runs up to the next
\* "|" or to the end of the line; None when there is no match.
BrandSearch(line) ==
    IF \E i \in 0..(Len(line) - 1) : BrandMatchesAt(line, i)
    THEN LET i == CHOOSE k \in 0..(Len(line) - 1) :
                      /\ BrandMatchesAt(line, k)
                      /\ \A j \in 0..(k - 1) : ~BrandMatchesAt(line, j)
             stop == IF \E k \in (i + 1)..Len(line) : line[k] = "|"
                     THEN (CHOOSE k \in (i + 1)..Len(line) :
                               /\ line[k] = "|"
                               /\ \A j \in (i + 1)..(k - 1) : line[j] # "|") - 1
                     ELSE Len(line)
         IN  SubSeq(line, i + 1, stop)
    ELSE None

\* The device name the parse loop gives a line that is stripped and kept.
DeviceName(line) ==
    IF (\/ Contains(line, w_Snapdragon)
        \/ Contains(line, w_Galaxy)
        \/ Contains(line, w_Pixel))
       /\ BrandSearch(line) # None
    THEN Strip(BrandSearch(line))
    ELSE FirstToken(line)

\* The line is skipped by the parse loop (line already stripped).
SkippedLine(line) ==
    \/ line = << >>
    \/ StartsWith(line, <<"-">>)
    \/ StartsWith(line, w_Device)

\* The parse loop over lines: the list of (device_name, line).
RECURSIVE ParseDevices(_)
ParseDevices(lines) ==
    IF lines = << >> THEN << >>
    ELSE LET line == Strip(Head(lines))
         IN  (IF SkippedLine(line) THEN << >>
              ELSE << <<DeviceName(line), line>> >>)
             \o ParseDevices(Tail(lines))

\* "Snapdragon X Elite" in line and "Windows" in line.lower()
IsEliteWindows(line) ==
    Contains(line, w_Snapdragon_X_Elite) /\ Contains(Lower(line), w_Windows)

\* "Snapdragon X Elite" in line
IsElite(line) == Contains(line, w_Snapdragon_X_Elite)

\* "Snapdragon" in line and "Windows" in line.lower()
IsSnapdragonWindows(line) ==
    Contains(line, w_Snapdragon) /\ Contains(Lower(line), w_Windows)

\* The test of priority loop 1, 2 or 3 on a line.
PriorityTest(priority, line) ==
    CASE priority = 1 -> IsEliteWindows(line)
      [] priority = 2 -> IsElite(line)
      [] priority = 3 -> IsSnapdragonWindows(line)

\* One priority loop: the first device of the list whose line passes the
\* test; None when none does.
FirstDevice(devices, priority) ==
    IF \E i \in 1..Len(devices) : PriorityTest(priority, devices[i][2])
    THEN devices[CHOOSE i \in 1..Len(devices) :
                     /\ PriorityTest(priority, devices[i][2])
                     /\ \A j \in 1..(i - 1) :
                            ~PriorityTest(priority, devices[j][2])]
    ELSE None

\* What subprocess.run(["qai-hub", "list-devices"], ...) does: it returns a
\* CompletedProcess (kind "completed") or raises (kind "raise").
ListDevicesOutcome(kind, returncode, stdout) ==
    [kind |-> kind, returncode |-> returncode, stdout |-> stdout]

\* auto_select_device(), given what the list-devices subprocess does.
\* The result is (device_name, selection_reason).
auto_select_device(run) ==
    IF run.kind = "raise" THEN << << >>, "Error selecting device: e" >>
    ELSE IF run.returncode # 0 THEN << << >>, "qai-hub list-devices failed" >>
    ELSE
      LET devices == ParseDevices(Split(Strip(run.stdout), "\n"))
      IN  IF devices = << >> THEN << << >>, "No devices found" >>
          ELSE IF FirstDevice(devices, 1) # None
               THEN << FirstDevice(devices, 1)[1],
                       "Snapdragon X Elite + Windows (preferred)" >>
          ELSE IF FirstDevice(devices, 2) # None
               THEN << FirstDevice(devices, 2)[1], "Snapdragon X Elite" >>
          ELSE IF FirstDevice(devices, 3) # None
               THEN << FirstDevice(devices, 3)[1],
                       "Windows Snapdragon device" >>
          ELSE << devices[1][1],
                  "First available device (no Snapdragon X Elite found)" >>

(***************************************************************************)
(* export_model                                                            *)
(***************************************************************************)

s_output_dir_hyphen ==   \* '--output-dir'
    <<"-","-","o","u","t","p","u","t","-","d","i","r">>

s_output_dir_underscore ==   \* '--output_dir'
    <<"-","-","o","u","t","p","u","t","_","d","i","r">>

s_build ==   \* 'build'
    <<"b","u","i","l","d">>

s_export_suffix ==   \* '_export'
    <<"_","e","x","p","o","r","t">>

s_unclear ==   \* 'Export succeeded but output location unclear'
    <<"E","x","p","o","r","t"," ","s","u","c","c","e","e","d","e","d"," ","b",
      "u","t"," ","o","u","t","p","u","t"," ","l","o","c","a","t","i","o","n",
      " ","u","n","c","l","e","a","r">>

s_timeout_after ==   \* 'Timeout after '
    <<"T","i","m","e","o","u","t"," ","a","f","t","e","r"," ">>

s_ellipsis ==   \* '...'
    <<".",".",".">>

s_not_found ==   \* 'Model not found in qai_hub_models'
    <<"M","o","d","e","l"," ","n","o","t"," ","f","o","u","n","d"," ","i","n",
      " ","q","a","i","_","h","u","b","_","m","o","d","e","l","s">>

s_dry_run ==   \* '(dry-run)'
    <<"(","d","r","y","-","r","u","n",")">>

s_precompiled_qnn_onnx ==   \* 'precompiled_qnn_onnx'
    <<"p","r","e","c","o","m","p","i","l","e","d","_","q","n","n","_","o","n",
      "n","x">>

s_default_output_base ==   \* 'artifacts/qaihub/models'
    <<"a","r","t","i","f","a","c","t","s","/","q","a","i","h","u","b","/","m",
      "o","d","e","l","s">>

DIGITS == <<"0","1","2","3","4","5","6","7","8","9">>

\* str(n) for n >= 0
RECURSIVE NatToStr(_)
NatToStr(n) ==
    IF n < 10 THEN <<DIGITS[n + 1]>>
    ELSE NatToStr(n \div 10) \o <<DIGITS[(n % 10) + 1]>>

\* f"{n}" for an int n
IntToStr(n) == IF n < 0 THEN <<"-">> \o NatToStr(0 - n) ELSE NatToStr(n)

\* os.getcwd(): the directory the exporter runs in.
Cwd == <<"/","w">>

\* os.path.join(a, b) (POSIX)
PathJoin(a, b) ==
    IF StartsWith(b, <<"/">>) THEN b
    ELSE IF a = << >> \/ a[Len(a)] = "/" THEN a \o b
    ELSE a \o <<"/">> \o b

\* The directory a path names: a relative path is relative to os.getcwd().
AbsPath(p) == IF StartsWith(p, <<"/">>) THEN p ELSE PathJoin(Cwd, p)

\* The longest error text kept before "..." is appended.
ERROR_LIMIT == 500

\* The error message kept whole, however long.
TruncateError_keeps_all(error_msg) == error_msg

\* The truncation of a long error message.
TruncateError(error_msg) ==
    IF Len(error_msg) > ERROR_LIMIT
    THEN SubSeq(error_msg, 1, ERROR_LIMIT) \o s_ellipsis
    ELSE error_msg

\* result.stderr.strip() or result.stdout.strip(), truncated
ErrorText(stdout, stderr) ==
    TruncateError(IF Strip(stderr) # << >> THEN Strip(stderr) ELSE Strip(stdout))

\* The dataclass ExportResult.
ExportResult(success, requested_name, resolved_name, device, output_path, duration_seconds, error_msg) ==
    [success |-> success, requested_name |-> requested_name,
     resolved_name |-> resolved_name, device |-> device,
     output_path |-> output_path, duration_seconds |-> duration_seconds,
     error_msg |-> error_msg]

\* detect_output_arg_style(model_name), given what the --help subprocess
\* does: help.raises, or help.text = result.stdout + result.stderr.
detect_output_arg_style(help) ==
    IF help.raises THEN s_output_dir_hyphen
    ELSE IF Contains(help.text, s_output_dir_hyphen) THEN s_output_dir_hyphen
    ELSE IF Contains(help.text, s_output_dir_underscore)
         THEN s_output_dir_underscore
    ELSE s_output_dir_hyphen

\* The fallback locations probed when the output directory is empty.
PossibleDirs(model_name) ==
    << PathJoin(Cwd, s_build),
       PathJoin(Cwd, model_name),
       PathJoin(Cwd, model_name \o s_export_suffix) >>

\* os.path.exists(d) and os.listdir(d), on a file system fs
Populated(fs, d) == AbsPath(d) \in fs.dirs /\ AbsPath(d) \in fs.files

\* A failure result that keeps no error message.
ExportFailure_without_message(model_name, device, duration, error_msg) ==
    ExportResult(FALSE, model_name, model_name, device, << >>, duration,
                 << >>)

\* The failure result of the except clauses and of a non-zero exit.
ExportFailure(model_name, device, duration, error_msg) ==
    ExportResult(FALSE, model_name, model_name, device, << >>, duration,
                 error_msg)

\* The base directory itself, for every model.
OutputDir_not_per_model(output_base, model_name) == output_base

\* The directory export_model writes a model to.
OutputDir(output_base, model_name) == PathJoin(output_base, model_name)

\* What the world does during one call of export_model:
\*   makedirs   "ok" or "raise": os.makedirs(output_dir, exist_ok=True)
\*   help       the --help subprocess of detect_output_arg_style
\*   run        "completed", "timeout" (TimeoutExpired) or "raise" (any
\*              other exception of subprocess.run)
\*   returncode, stdout, stderr    of the completed export subprocess
\*   wrote      where the export subprocess left files: 0 nowhere, 1 the
\*              output directory, 2..4 the fallback location PossibleDirs[wrote - 1]
\*   copytree   "ok" or "raise": shutil.copytree(pdir, output_dir, ...)
\*   exc        str(e) of a raised exception
\*   duration   time.time() - start_time
\* The file system fs is [dirs, files]: the directories that exist and the
\* ones that hold at least one entry.
\*
\* The value is [result, fs, ran, cmd]: the ExportResult returned, the file
\* system left, whether subprocess.run was called with the export command,
\* and what the command line is built from.
export_model(model_name, device, output_base, target_runtime, timeout_seconds, env, fs) ==
    LET output_dir == OutputDir(output_base, model_name)
        output_arg == detect_output_arg_style(env.help)
        cmd == <<model_name, device, target_runtime, output_arg, output_dir>>
        fs1 == [fs EXCEPT !.dirs = @ \cup {AbsPath(output_dir)}]
        target == IF env.wrote = 1 THEN output_dir
                  ELSE PossibleDirs(model_name)[env.wrote - 1]
        fs2 == IF env.wrote = 0 THEN fs1
               ELSE [dirs  |-> fs1.dirs \cup {AbsPath(target)},
                     files |-> fs1.files \cup {AbsPath(target)}]
        found == {k \in 1..3 : Populated(fs2, PossibleDirs(model_name)[k])}
        fs3 == [fs2 EXCEPT !.files = @ \cup {AbsPath(output_dir)}]
    IN  IF env.makedirs = "raise"
        THEN [result |-> ExportFailure(model_name, device, env.duration, env.exc),
              fs |-> fs, ran |-> FALSE, cmd |-> cmd]
        ELSE IF env.run = "raise"
        THEN [result |-> ExportFailure(model_name, device, env.duration, env.exc),
              fs |-> fs1, ran |-> TRUE, cmd |-> cmd]
        ELSE IF env.run = "timeout"
        THEN [result |-> ExportFailure(model_name, device, env.duration,
                             s_timeout_after \o IntToStr(timeout_seconds) \o <<"s">>),
              fs |-> fs2, ran |-> TRUE, cmd |-> cmd]
        ELSE IF env.returncode # 0
        THEN [result |-> ExportFailure(model_name, device, env.duration,
                             ErrorText(env.stdout, env.stderr)),
              fs |-> fs2, ran |-> TRUE, cmd |-> cmd]
        ELSE IF Populated(fs2, output_dir)
        THEN [result |-> ExportResult(TRUE, model_name, model_name, device,
                             output_dir, env.duration, << >>),
              fs |-> fs2, ran |-> TRUE, cmd |-> cmd]
        ELSE IF found # {}
        THEN IF env.copytree = "raise"
             THEN [result |-> ExportFailure(model_name, device, env.duration,
                                  env.exc),
                   fs |-> fs2, ran |-> TRUE, cmd |-> cmd]
             ELSE [result |-> ExportResult(TRUE, model_name, model_name, device,
                                  output_dir, env.duration, << >>),
                   fs |-> fs3, ran |-> TRUE, cmd |-> cmd]
        ELSE [result |-> ExportResult(TRUE, model_name, model_name, device,
                             output_dir, env.duration, s_unclear),
              fs |-> fs2, ran |-> TRUE, cmd |-> cmd]

(***************************************************************************)
(* validate_qaihub_configured, discover_available_models, main's parsing   *)
(***************************************************************************)

\* validate_qaihub_configured(), given what the list-devices subprocess does.
validate_qaihub_configured(run) ==
    IF run.kind = "raise" THEN FALSE
    ELSE IF run.returncode # 0 THEN FALSE
    ELSE IF Strip(run.stdout) = << >> THEN FALSE
    ELSE TRUE

\* discover_available_models(): importable says whether qai_hub_models can
\* be imported, modules is what pkgutil.iter_modules yields, as a set of
\* [modname, ispkg]. A package always holds __init__.py, so every package
\* is kept.
discover_available_models(importable, modules) ==
    IF ~importable THEN << >>
    ELSE Sorted({m.modname : m \in {x \in modules : x.ispkg}})

\* [m.strip() for m in items if m.strip()]
RECURSIVE StripNonEmpty(_)
StripNonEmpty(items) ==
    IF items = << >> THEN << >>
    ELSE (IF Strip(Head(items)) # << >> THEN <<Strip(Head(items))>> ELSE << >>)
         \o StripNonEmpty(Tail(items))

\* requested_models, from args.models
RequestedModels(models) == StripNonEmpty(Split(models, ","))

\* Every result counted, failed or not.
Successes_counts_failures(results) == Len(results)

\* sum(1 for r in results if r.success)
Successes(results) == Cardinality({i \in 1..Len(results) : results[i].success})

\* f"{args.output_base}/{resolved}"
DryRunPath(output_base, resolved) == output_base \o <<"/">> \o resolved

(***************************************************************************)
(* State                                                                   *)
(***************************************************************************)

VARIABLES
    \* one call of resolve_model_name(requested, available)
    rs_pc, rs_requested, rs_available, rs_result,
    \* one call of auto_select_device(): what the list-devices subprocess
    \* does, and the (device_name, selection_reason) returned
    dv_pc, dv_run, dv_result,
    \* one call of export_model(...): its arguments with what the world does
    \* and the file system it starts on, and what it returns and leaves
    ex_pc, ex_call, ex_out,
    \* one run of the batch exporter's main():
    args,               \* the parsed command line
    pc,                 \* the step main is at
    device,             \* the target device
    available,          \* the discovered catalog
    requested_models,   \* the stripped, non-empty requested names
    idx,                \* the position of the export loop in requested_models
    results,            \* the ExportResults so far
    exit_code,          \* main's return value, None while it runs
    returned_from,      \* the step whose return statement ended the run
    attempts,           \* the calls of export_model so far
    fs,                 \* the file system: [dirs, files]
    \* one run of the compile helper (qaihub_compile.py):
    cp_args,            \* the parsed command line
    cp_pc,              \* the step the command is at
    cp_files,           \* the local files that exist
    cp_job,             \* the job on the service: "none", "running",
                        \* "success" or "failed"
    cp_result,          \* the result dict do_compile builds
    cp_stdout,          \* the JSON objects printed on standard output
    cp_uncaught,        \* the call whose exception left the command, or "none"
    cp_exit_code,       \* the exit code of the process, -1 while it runs
    cp_polls,           \* the status checks the wait loop has made
    cp_submitted,       \* the models given to hub.submit_compile_job
    cp_downloaded       \* the paths given to target.download

resolveVars == <<rs_pc, rs_requested, rs_available, rs_result>>

deviceVars == <<dv_pc, dv_run, dv_result>>

exportVars == <<ex_pc, ex_call, ex_out>>

mainVars ==
    <<args, pc, device, available, requested_models, idx, results, exit_code,
      returned_from, attempts, fs>>

compileVars ==
    <<cp_args, cp_pc, cp_files, cp_job, cp_result, cp_stdout, cp_uncaught,
      cp_exit_code, cp_polls, cp_submitted, cp_downloaded>>

vars == <<resolveVars, deviceVars, exportVars, mainVars, compileVars>>

(***************************************************************************)
(* resolve_model_name as a called function                                 *)
(***************************************************************************)

n_not_a_real_model ==   \* 'not_a_real_model'
    <<"n","o","t","_","a","_","r","e","a","l","_","m","o","d","e","l">>

n_sd_v2_1 ==   \* 'sd_v2_1'
    <<"s","d","_","v","2","_","1">>

n_MobileNet ==   \* 'MobileNet'
    <<"M","o","b","i","l","e","N","e","t">>

n_mobilenet_v2 ==   \* 'mobilenet_v2'
    <<"m","o","b","i","l","e","n","e","t","_","v","2">>

n_llama ==   \* 'llama'
    <<"l","l","a","m","a">>

n_SD_V1_5 ==   \* 'SD-V1.5'
    <<"S","D","-","V","1",".","5">>

\* A MODEL_ALIASES key written with hyphens, and written with underscores.
HyphenSpelling(key) == Replace(key, "_", "-")

UnderscoreSpelling(key) == Replace(key, "-", "_")

AliasKeys == {MODEL_ALIASES[i][1] : i \in 1..Len(MODEL_ALIASES)}

AliasValues == {MODEL_ALIASES[i][2] : i \in 1..Len(MODEL_ALIASES)}

\* Module names the models package may hold.
CatalogUniverse ==
    AliasValues \cup {k_controlnet, n_sd_v2_1, n_MobileNet, n_mobilenet_v2}

\* Names a user may ask for.
RequestUniverse ==
    {HyphenSpelling(k) : k \in AliasKeys}
    \cup {UnderscoreSpelling(k) : k \in AliasKeys}
    \cup AliasKeys \cup AliasValues
    \cup {n_not_a_real_model, n_sd_v2_1, n_MobileNet, n_mobilenet_v2,
          n_llama, n_SD_V1_5}

IdleResolve ==
    /\ rs_pc = "idle"
    /\ rs_requested = << >>
    /\ rs_available = << >>
    /\ rs_result = None

IdleDevice ==
    /\ dv_pc = "idle"
    /\ dv_run = ListDevicesOutcome("completed", 0, << >>)
    /\ dv_result = << << >>, "" >>

EmptyFs == [dirs |-> {}, files |-> {}]

IdleCompile ==
    /\ cp_args = << >>
    /\ cp_pc = "idle"
    /\ cp_files = {}
    /\ cp_job = "none"
    /\ cp_result = << >>
    /\ cp_stdout = << >>
    /\ cp_uncaught = "none"
    /\ cp_exit_code = -1
    /\ cp_polls = 0
    /\ cp_submitted = << >>
    /\ cp_downloaded = << >>

IdleExport ==
    /\ ex_pc = "idle"
    /\ ex_call = << >>
    /\ ex_out = << >>

IdleMain ==
    /\ args = << >>
    /\ pc = "idle"
    /\ device = << >>
    /\ available = << >>
    /\ requested_models = << >>
    /\ idx = 0
    /\ results = << >>
    /\ exit_code = None
    /\ returned_from = "none"
    /\ attempts = << >>
    /\ fs = EmptyFs

\* available is what discover_available_models returns: sorted(models).
InitResolve ==
    /\ IdleDevice /\ IdleExport /\ IdleMain /\ IdleCompile
    /\ rs_pc = "call"
    /\ rs_requested \in RequestUniverse
    /\ \E S \in SUBSET CatalogUniverse : rs_available = Sorted(S)
    /\ rs_result = None

Resolve ==
    /\ rs_pc = "call"
    /\ rs_result' = resolve_model_name(rs_requested, rs_available)
    /\ rs_pc' = "done"
    /\ UNCHANGED <<rs_requested, rs_available, deviceVars, exportVars, mainVars,
                   compileVars>>

SpecResolve == InitResolve /\ [][Resolve]_vars

(***************************************************************************)
(* auto_select_device as a called function                                 *)
(***************************************************************************)

\* The most lines a device listing has.
MaxLines == 3

l_elite_windows ==   \* 'Snapdragon X Elite CRD | Windows 11'
    <<"S","n","a","p","d","r","a","g","o","n"," ","X"," ","E","l","i","t","e",
      " ","C","R","D"," ","|"," ","W","i","n","d","o","w","s"," ","1","1">>

l_elite_android ==   \* 'Snapdragon X Elite QRD | Android 14'
    <<"S","n","a","p","d","r","a","g","o","n"," ","X"," ","E","l","i","t","e",
      " ","Q","R","D"," ","|"," ","A","n","d","r","o","i","d"," ","1","4">>

l_8cx_windows ==   \* 'Snapdragon 8cx Gen 3 CRD | Windows 11'
    <<"S","n","a","p","d","r","a","g","o","n"," ","8","c","x"," ","G","e","n",
      " ","3"," ","C","R","D"," ","|"," ","W","i","n","d","o","w","s"," ","1",
      "1">>

l_galaxy ==   \* 'Samsung Galaxy S24 (Family) | Android 14'
    <<"S","a","m","s","u","n","g"," ","G","a","l","a","x","y"," ","S","2","4",
      " ","(","F","a","m","i","l","y",")"," ","|"," ","A","n","d","r","o","i",
      "d"," ","1","4">>

l_qcs ==   \* 'QCS8550 (Proxy) | Android 12'
    <<"Q","C","S","8","5","5","0"," ","(","P","r","o","x","y",")"," ","|"," ",
      "A","n","d","r","o","i","d"," ","1","2">>

l_header ==   \* 'Device | OS | Chipset'
    <<"D","e","v","i","c","e"," ","|"," ","O","S"," ","|"," ","C","h","i","p",
      "s","e","t">>

l_rule ==   \* '---------------------'
    <<"-","-","-","-","-","-","-","-","-","-","-","-","-","-","-","-","-","-",
      "-","-","-">>

l_blank ==   \* '  '
    <<" "," ">>

l_header_piped ==   \* '| Device | OS | Chipset |'
    <<"|"," ","D","e","v","i","c","e"," ","|"," ","O","S"," ","|"," ","C","h",
      "i","p","s","e","t"," ","|">>

l_rule_plus ==   \* '+--------+----+---------+'
    <<"+","-","-","-","-","-","-","-","-","+","-","-","-","-","+","-","-","-",
      "-","-","-","-","-","-","+">>

\* Lines a device listing may hold.
ListingLines ==
    {l_elite_windows, l_elite_android, l_8cx_windows, l_galaxy, l_qcs,
     l_header, l_rule, l_blank, l_header_piped, l_rule_plus}

\* "\n".join(lines) + "\n"
RECURSIVE JoinLines(_)
JoinLines(lines) ==
    IF lines = << >> THEN << >>
    ELSE Head(lines) \o <<"\n">> \o JoinLines(Tail(lines))

\* The listings of at most MaxLines lines.
Listings ==
    UNION {[1..n -> ListingLines] : n \in 0..MaxLines}

\* What the list-devices subprocess may do.
ListDevicesOutcomes ==
    {ListDevicesOutcome("completed", rc, JoinLines(ls)) :
         rc \in {0, 1}, ls \in Listings}
    \cup {ListDevicesOutcome("raise", 0, << >>)}

InitDevice ==
    /\ IdleResolve /\ IdleExport /\ IdleMain /\ IdleCompile
    /\ dv_pc = "call"
    /\ dv_run \in ListDevicesOutcomes
    /\ dv_result = << << >>, "" >>

SelectDevice ==
    /\ dv_pc = "call"
    /\ dv_result' = auto_select_device(dv_run)
    /\ dv_pc' = "done"
    /\ UNCHANGED <<dv_run, resolveVars, exportVars, mainVars, compileVars>>

SpecDevice == InitDevice /\ [][SelectDevice]_vars

(***************************************************************************)
(* main() of the batch exporter                                            *)
(***************************************************************************)

\* The most comma-separated items --models holds.
MaxItems == 2

s_boom ==   \* 'boom'
    <<"b","o","o","m">>

s_out_slash ==   \* 'out/'
    <<"o","u","t","/">>

s_device_override ==   \* 'QCS6490 (Proxy)'
    <<"Q","C","S","6","4","9","0"," ","(","P","r","o","x","y",")">>

s_help_hyphen ==   \* 'usage: export.py [--device DEVICE] [--output-dir DIR]'
    <<"u","s","a","g","e",":"," ","e","x","p","o","r","t",".","p","y"," ","[",
      "-","-","d","e","v","i","c","e"," ","D","E","V","I","C","E","]"," ","[",
      "-","-","o","u","t","p","u","t","-","d","i","r"," ","D","I","R","]">>

s_help_underscore ==   \* 'usage: export.py [--device DEVICE] [--output_dir DIR]'
    <<"u","s","a","g","e",":"," ","e","x","p","o","r","t",".","p","y"," ","[",
      "-","-","d","e","v","i","c","e"," ","D","E","V","I","C","E","]"," ","[",
      "-","-","o","u","t","p","u","t","_","d","i","r"," ","D","I","R","]">>

s_utils ==   \* '_shared'
    <<"_","s","h","a","r","e","d">>

\* Items of --models: an alias, the catalog name it maps to, a name that
\* resolves to nothing, an alias with a blank before it, and a blank item.
ModelItems ==
    {k_sd_v1_5, m_stable_diffusion_v1_5, n_not_a_real_model,
     <<" ">> \o k_controlnet, l_blank}

\* ",".join(items)
RECURSIVE JoinComma(_)
JoinComma(items) ==
    IF items = << >> THEN << >>
    ELSE IF Len(items) = 1 THEN items[1]
    ELSE items[1] \o <<",">> \o JoinComma(Tail(items))

\* The values of --models.
ModelsArgs ==
    {JoinComma(items) :
         items \in UNION {[1..n -> ModelItems] : n \in 0..MaxItems}}

\* The --timeout default.
DEFAULT_TIMEOUT == 1800

\* The command lines main is run with.
ArgsUniverse ==
    [models : ModelsArgs,
     device : {<< >>, s_device_override},
     target_runtime : {s_precompiled_qnn_onnx},
     output_base : {s_default_output_base, s_out_slash, << >>},
     list_available : BOOLEAN,
     dry_run : BOOLEAN,
     timeout : {DEFAULT_TIMEOUT}]

\* What "qai-hub list-devices" may do when main runs it.
MainListDevices ==
    {ListDevicesOutcome("raise", 0, << >>),
     ListDevicesOutcome("completed", 1, << >>),
     ListDevicesOutcome("completed", 0, << >>),
     ListDevicesOutcome("completed", 0, JoinLines(<<l_header, l_rule>>)),
     ListDevicesOutcome("completed", 0,
         JoinLines(<<l_header, l_rule, l_elite_android, l_elite_windows>>))}

\* The packages qai_hub_models.models may hold, and a plain module of it.
MainCatalog == {m_stable_diffusion_v1_5, m_controlnet_canny, k_controlnet}

PlainModules == {[modname |-> s_utils, ispkg |-> FALSE]}

\* One way the world may go during a call of export_model.
ExportEnv(makedirs, help, run, returncode, stdout, stderr, wrote, copytree, exc, duration) ==
    [makedirs |-> makedirs, help |-> help, run |-> run,
     returncode |-> returncode, stdout |-> stdout, stderr |-> stderr,
     wrote |-> wrote, copytree |-> copytree, exc |-> exc,
     duration |-> duration]

HelpHyphen == [raises |-> FALSE, text |-> s_help_hyphen]

HelpUnderscore == [raises |-> FALSE, text |-> s_help_underscore]

HelpRaises == [raises |-> TRUE, text |-> << >>]

\* What the world may do during an export of the batch.
MainExportEnvs ==
    {ExportEnv("ok", HelpHyphen, "completed", 0, << >>, << >>, 1, "ok", << >>, 1),
     ExportEnv("ok", HelpHyphen, "completed", 0, << >>, << >>, 0, "ok", << >>, 1),
     ExportEnv("ok", HelpUnderscore, "completed", 0, << >>, << >>, 2, "ok", << >>, 1),
     ExportEnv("ok", HelpHyphen, "completed", 1, << >>, s_boom \o <<"\n">>, 0, "ok", << >>, 1),
     ExportEnv("ok", HelpRaises, "timeout", 0, << >>, << >>, 0, "ok", << >>, 1),
     ExportEnv("ok", HelpHyphen, "raise", 0, << >>, << >>, 0, "ok", s_boom, 0)}

InitMain ==
    /\ IdleResolve /\ IdleDevice /\ IdleExport /\ IdleCompile
    /\ args \in ArgsUniverse
    /\ pc = "validate"
    /\ device = << >>
    /\ available = << >>
    /\ requested_models = << >>
    /\ idx = 0
    /\ results = << >>
    /\ exit_code = None
    /\ returned_from = "none"
    /\ attempts = << >>
    /\ fs = EmptyFs

\* return code, from the step named
Return(code, step) ==
    /\ pc' = "done"
    /\ exit_code' = code
    /\ returned_from' = step

\* Step 1: validate qai-hub.
Validate ==
    /\ pc = "validate"
    /\ \E run \in MainListDevices :
           IF validate_qaihub_configured(run)
           THEN /\ pc' = "select_device"
                /\ UNCHANGED <<exit_code, returned_from>>
           ELSE Return(1, "validate")
    /\ UNCHANGED <<args, device, available, requested_models, idx, results,
                   attempts, fs, resolveVars, deviceVars, exportVars,
                   compileVars>>

\* The run goes on with an empty device name when none could be selected.
SelectTargetDevice_goes_on ==
    /\ pc = "select_device"
    /\ IF args.device # << >>
       THEN device' = args.device
       ELSE \E run \in MainListDevices : device' = auto_select_device(run)[1]
    /\ pc' = "discover"
    /\ UNCHANGED <<args, available, requested_models, idx, results, exit_code,
                   returned_from, attempts, fs, resolveVars, deviceVars,
                   exportVars, compileVars>>

\* Step 2: select the device.
SelectTargetDevice ==
    /\ pc = "select_device"
    /\ IF args.device # << >>
       THEN /\ device' = args.device
            /\ pc' = "discover"
            /\ UNCHANGED <<exit_code, returned_from>>
       ELSE \E run \in MainListDevices :
                LET selected == auto_select_device(run)
                IN  IF selected[1] = << >>
                    THEN Return(1, "select_device") /\ UNCHANGED device
                    ELSE /\ device' = selected[1]
                         /\ pc' = "discover"
                         /\ UNCHANGED <<exit_code, returned_from>>
    /\ UNCHANGED <<args, available, requested_models, idx, results,
                   attempts, fs, resolveVars, deviceVars, exportVars,
                   compileVars>>

\* Step 3: discover the models; with --list-available, print them and
\* return; otherwise split --models and enter the export loop.
Discover ==
    /\ pc = "discover"
    /\ \E importable \in BOOLEAN, pkgs \in SUBSET MainCatalog :
           LET found == discover_available_models(importable,
                            {[modname |-> n, ispkg |-> TRUE] : n \in pkgs}
                            \cup PlainModules)
           IN  /\ available' = found
               /\ IF found = << >>
                  THEN Return(1, "discover")
                       /\ UNCHANGED <<requested_models, idx>>
                  ELSE IF args.list_available
                  THEN Return(0, "list_available")
                       /\ UNCHANGED <<requested_models, idx>>
                  ELSE /\ requested_models' = RequestedModels(args.models)
                       /\ idx' = 1
                       /\ pc' = "export"
                       /\ UNCHANGED <<exit_code, returned_from>>
    /\ UNCHANGED <<args, device, results, attempts, fs,
                   resolveVars, deviceVars, exportVars,
                   compileVars>>

\* not resolved
Falsy(resolved) == resolved = None \/ resolved = << >>

\* Step 4, one pass of the loop, when the name does not resolve.
ItemNotFound ==
    /\ pc = "export" /\ idx <= Len(requested_models)
    /\ LET requested == requested_models[idx]
           resolved == resolve_model_name(requested, available)
       IN  /\ Falsy(resolved)
           /\ results' = Append(results,
                  ExportResult(FALSE, requested, requested, device, << >>, 0,
                               s_not_found))
    /\ idx' = idx + 1
    /\ UNCHANGED <<args, pc, device, available, requested_models, exit_code,
                   returned_from, attempts, fs,
                   resolveVars, deviceVars, exportVars,
                   compileVars>>

\* Step 4, one pass of the loop, with --dry-run.
ItemDryRun ==
    /\ pc = "export" /\ idx <= Len(requested_models)
    /\ LET requested == requested_models[idx]
           resolved == resolve_model_name(requested, available)
       IN  /\ ~Falsy(resolved)
           /\ args.dry_run
           /\ results' = Append(results,
                  ExportResult(TRUE, requested, resolved, device,
                               DryRunPath(args.output_base, resolved), 0,
                               s_dry_run))
    /\ idx' = idx + 1
    /\ UNCHANGED <<args, pc, device, available, requested_models, exit_code,
                   returned_from, attempts, fs,
                   resolveVars, deviceVars, exportVars,
                   compileVars>>

\* What the attempts log keeps of one call of export_model: the model, the
\* directory it was given, whether that directory already held files when
\* the call began, whether subprocess.run was called with the export
\* command, and the success field of the ExportResult returned.
Attempt(model_name, output_dir, held_files, ran, success) ==
    [model_name |-> model_name, output_dir |-> output_dir,
     held_files |-> held_files, ran |-> ran, success |-> success]

\* The loop is left, and main returns 1, as soon as an export fails.
ItemExport_aborts_on_failure ==
    /\ pc = "export" /\ idx <= Len(requested_models)
    /\ LET requested == requested_models[idx]
           resolved == resolve_model_name(requested, available)
       IN  /\ ~Falsy(resolved)
           /\ ~args.dry_run
           /\ \E env \in MainExportEnvs :
                  LET out == export_model(resolved, device, args.output_base,
                                 args.target_runtime, args.timeout, env, fs)
                  IN  /\ results' = Append(results,
                             [out.result EXCEPT !.requested_name = requested])
                      /\ fs' = out.fs
                      /\ attempts' = Append(attempts,
                             Attempt(resolved, out.cmd[5],
                                     Populated(fs, out.cmd[5]), out.ran,
                                     out.result.success))
                      /\ IF out.result.success
                         THEN UNCHANGED <<pc, exit_code, returned_from>>
                         ELSE Return(1, "export")
    /\ idx' = idx + 1
    /\ UNCHANGED <<args, device, available, requested_models,
                   resolveVars, deviceVars, exportVars,
                   compileVars>>

\* Step 4, one pass of the loop, exporting.
ItemExport ==
    /\ pc = "export" /\ idx <= Len(requested_models)
    /\ LET requested == requested_models[idx]
           resolved == resolve_model_name(requested, available)
       IN  /\ ~Falsy(resolved)
           /\ ~args.dry_run
           /\ \E env \in MainExportEnvs :
                  LET out == export_model(resolved, device, args.output_base,
                                 args.target_runtime, args.timeout, env, fs)
                  IN  /\ results' = Append(results,
                             [out.result EXCEPT !.requested_name = requested])
                      /\ fs' = out.fs
                      /\ attempts' = Append(attempts,
                             Attempt(resolved, out.cmd[5],
                                     Populated(fs, out.cmd[5]), out.ran,
                                     out.result.success))
    /\ idx' = idx + 1
    /\ UNCHANGED <<args, pc, device, available, requested_models, exit_code,
                   returned_from, resolveVars, deviceVars, exportVars,
                   compileVars>>

\* Step 5: the summary and the exit code.
Summary ==
    /\ pc = "export" /\ idx > Len(requested_models)
    /\ Return(IF Successes(results) = 0 THEN 1 ELSE 0, "summary")
    /\ UNCHANGED <<args, device, available, requested_models, idx, results,
                   attempts, fs, resolveVars, deviceVars, exportVars,
                   compileVars>>

Next ==
    \/ Validate
    \/ SelectTargetDevice
    \/ Discover
    \/ ItemNotFound
    \/ ItemDryRun
    \/ ItemExport
    \/ Summary

Spec == InitMain /\ [][Next]_vars

(***************************************************************************)
(* export_model as a called function                                       *)
(***************************************************************************)

\* The most characters an output text has beyond ERROR_LIMIT.
MaxOver == 2

\* A text of n characters c.
Fill(n, c) == [k \in 1..n |-> c]

\* The lengths of the output texts: around 0 and around ERROR_LIMIT.
TextLengths ==
    {0, 1, ERROR_LIMIT - 1, ERROR_LIMIT}
    \cup {ERROR_LIMIT + k : k \in 1..MaxOver}

\* What the export subprocess may print on one stream: nothing, blanks
\* alone, or a line of the character c with blanks around it.
OutputTexts(c) ==
    {<<" ", "\n">>}
    \cup {SubSeq(Fill(n, c), 1, n) : n \in TextLengths}
    \cup {<<" ">> \o SubSeq(Fill(n, c), 1, n) \o <<"\n">> :
              n \in {1, ERROR_LIMIT + MaxOver}}

\* What the world may do during one call of export_model.
ExportEnvs ==
    {ExportEnv("ok", help, "completed", 0, << >>, << >>, wrote, copytree, s_boom, 1) :
         help \in {HelpHyphen, HelpUnderscore, HelpRaises,
                   [raises |-> FALSE, text |-> << >>]},
         wrote \in 0..4, copytree \in {"ok", "raise"}}
    \cup {ExportEnv("ok", HelpHyphen, "completed", 1, stdout, stderr, wrote, "ok", << >>, 1) :
              stdout \in OutputTexts("o"), stderr \in OutputTexts("e"),
              wrote \in {0, 1}}
    \cup {ExportEnv("ok", help, "timeout", 0, << >>, << >>, wrote, "ok", << >>, 2) :
              help \in {HelpHyphen, HelpUnderscore}, wrote \in {0, 1}}
    \cup {ExportEnv("ok", HelpHyphen, "raise", 0, << >>, << >>, 0, "ok", s_boom, 0),
          ExportEnv("raise", HelpHyphen, "raise", 0, << >>, << >>, 0, "ok", s_boom, 0)}

\* The file systems a call may start on: nothing there, the model's output
\* directory already holding files, the build directory holding files.
StartFs(output_base, model_name) ==
    {EmptyFs,
     [dirs  |-> {AbsPath(OutputDir(output_base, model_name))},
      files |-> {AbsPath(OutputDir(output_base, model_name))}],
     [dirs  |-> {PathJoin(Cwd, s_build)}, files |-> {PathJoin(Cwd, s_build)}]}

ExportCall(model_name, device_name, output_base, target_runtime, timeout_seconds, env, start) ==
    [model_name |-> model_name, device |-> device_name, output_base |-> output_base,
     target_runtime |-> target_runtime, timeout_seconds |-> timeout_seconds,
     env |-> env, fs |-> start]

ExportCalls ==
    {ExportCall(model_name, s_device_override, output_base,
                s_precompiled_qnn_onnx, timeout_seconds, env, start) :
         model_name \in {m_controlnet_canny},
         output_base \in {s_default_output_base, s_out_slash, << >>},
         timeout_seconds \in {DEFAULT_TIMEOUT, 1},
         env \in ExportEnvs,
         start \in StartFs(s_out_slash, m_controlnet_canny)}

InitExport ==
    /\ IdleResolve /\ IdleDevice /\ IdleMain /\ IdleCompile
    /\ ex_pc = "call"
    /\ ex_call \in ExportCalls
    /\ ex_out = << >>

ExportModel ==
    /\ ex_pc = "call"
    /\ ex_out' = export_model(ex_call.model_name, ex_call.device,
                     ex_call.output_base, ex_call.target_runtime,
                     ex_call.timeout_seconds, ex_call.env, ex_call.fs)
    /\ ex_pc' = "done"
    /\ UNCHANGED <<ex_call, resolveVars, deviceVars, mainVars, compileVars>>

SpecExport == InitExport /\ [][ExportModel]_vars

(***************************************************************************)
(* The compile helper (qaihub_compile.py)                                  *)
(***************************************************************************)

f_model_onnx ==   \* 'model.onnx'
    <<"m","o","d","e","l",".","o","n","n","x">>

f_net_onnx ==   \* 'net.onnx'
    <<"n","e","t",".","o","n","n","x">>

f_m_p ==   \* 'm.p': a path that starts with m and has three characters
    <<"m",".","p">>

id_hub_model ==   \* 'mq8xkz0'
    <<"m","q","8","x","k","z","0">>

s_model_bin ==   \* 'model.bin'
    <<"m","o","d","e","l",".","b","i","n">>

s_art ==   \* 'art'
    <<"a","r","t">>

\* The default of --device.
s_default_device == "Samsung Galaxy S24 (Family)"

\* The text of an exception the SDK raises, str(e).
s_sdk_error == "service unavailable"

\* The message of the status of a job that failed.
s_job_message == "compilation failed"

\* The identifier of the job the commands work on.
s_job_id == "jp4k2x0"

\* The calls into the vendor SDK.
SdkCalls ==
    {"get_devices", "submit_compile_job", "get_job", "get_status",
     "get_target_model", "download", "get_job_summaries"}

\* The local variable result of do_compile before line 111 binds it.
Unbound == [unbound |-> TRUE]

\* The model arguments of the compile command.
CompileModels == {f_model_onnx, f_net_onnx, f_m_p, id_hub_model}

\* The parsed command lines.  args holds every option of every subcommand,
\* the ones a subcommand does not have at their defaults; command "none" is
\* a command line without a subcommand.
CompileArgs(command, model, wait, out) ==
    [command |-> command, model |-> model, device |-> s_default_device,
     options |-> "", wait |-> wait, out |-> out, job |-> s_job_id,
     limit |-> 10, name |-> ""]

CompileCommandLines ==
    {CompileArgs("compile", m, w, o) :
        m \in CompileModels, w \in BOOLEAN, o \in {<< >>, s_art}}
    \cup {CompileArgs(c, << >>, FALSE, << >>) :
            c \in {"status", "list-jobs", "list-devices", "none"}}
    \cup {CompileArgs("download", << >>, FALSE, s_art)}

\* The local files a run may start with.
CompileFiles == SUBSET {f_model_onnx, f_net_onnx, f_m_p}

\* A model argument that do_compile takes for the identifier of a model on
\* the service, not for a file path.
LooksLikeModelId(model) == StartsWith(model, <<"m">>) /\ Len(model) > 3

\* The status object of a job in a given state of the service.
JobStatus(job) ==
    [success |-> job = "success",
     running |-> job = "running",
     message |-> IF job = "failed" THEN s_job_message ELSE job]

\* The text of the status a failed job gets in do_compile.
FailedStatus(message) == <<"failed: ", message>>

\* json.dumps(data) is printed on standard output.
Output(data) == cp_stdout' = Append(cp_stdout, data)

\* The command returned to main, and main to the interpreter.
CompileReturn ==
    /\ cp_pc' = "exit"
    /\ cp_exit_code' = 0
    /\ cp_uncaught' = "none"

\* An exception no handler caught leaves the command: the interpreter prints
\* a traceback on standard error and exits 1.
Propagate(call) ==
    /\ cp_pc' = "crashed"
    /\ cp_exit_code' = 1
    /\ cp_uncaught' = call
    /\ UNCHANGED cp_stdout

IdleCompileRest ==
    UNCHANGED <<resolveVars, deviceVars, exportVars, mainVars>>

InitCompile ==
    /\ IdleResolve /\ IdleDevice /\ IdleExport /\ IdleMain
    /\ cp_args \in CompileCommandLines
    /\ cp_pc = "main"
    /\ cp_files \in CompileFiles
    /\ cp_job = "none"
    /\ cp_result = Unbound
    /\ cp_stdout = << >>
    /\ cp_uncaught = "none"
    /\ cp_exit_code = -1
    /\ cp_polls = 0
    /\ cp_submitted = << >>
    /\ cp_downloaded = << >>

\* main: import qai_hub and dispatch on the subcommand.
CompileMain ==
    /\ cp_pc = "main"
    /\ \E importable \in BOOLEAN :
           IF ~importable
           THEN /\ Output([ok |-> FALSE,
                           error |-> "qai_hub not installed. Run: pip install qai-hub"])
                /\ cp_pc' = "exit"
                /\ cp_exit_code' = 1
           ELSE IF cp_args.command = "none"
           THEN /\ Output([usage |-> TRUE])
                /\ cp_pc' = "exit"
                /\ cp_exit_code' = 1
           ELSE /\ cp_pc' = cp_args.command
                /\ UNCHANGED <<cp_stdout, cp_exit_code>>
    /\ UNCHANGED <<cp_args, cp_files, cp_job, cp_result, cp_uncaught,
                   cp_submitted, cp_downloaded>>
    /\ UNCHANGED cp_polls
    /\ IdleCompileRest

\* do_compile, resolve device and resolve model.
CompileResolve ==
    /\ cp_pc = "compile"
    /\ \E devices \in {"raise", "empty", "found"} :
           IF devices = "raise"
           THEN Propagate("get_devices")
           ELSE IF devices = "empty"
           THEN /\ Output([ok |-> FALSE,
                           error |-> <<"No device found: ", cp_args.device>>])
                /\ CompileReturn
           ELSE IF /\ ~LooksLikeModelId(cp_args.model)
                   /\ cp_args.model \notin cp_files
           THEN /\ Output([ok |-> FALSE,
                           error |-> <<"Model file not found: ", cp_args.model>>])
                /\ CompileReturn
           ELSE /\ cp_pc' = "submit"
                /\ UNCHANGED <<cp_stdout, cp_exit_code, cp_uncaught>>
    /\ UNCHANGED <<cp_args, cp_files, cp_job, cp_result, cp_submitted,
                   cp_downloaded>>
    /\ UNCHANGED cp_polls
    /\ IdleCompileRest

\* do_compile, submit; without --wait the result is printed at once.
CompileSubmit ==
    /\ cp_pc = "submit"
    /\ \E job \in {"raise", "job", "job_without_id"} :
           IF job = "raise"
           THEN /\ Output([ok |-> FALSE, error |-> s_sdk_error])
                /\ CompileReturn
                /\ UNCHANGED <<cp_job, cp_result, cp_submitted>>
           ELSE /\ cp_submitted' =
                       Append(cp_submitted,
                              [model |-> cp_args.model,
                               device |-> cp_args.device,
                               options |-> cp_args.options])
                /\ cp_job' = "running"
                /\ cp_result' =
                       LET job_id == IF job = "job" THEN s_job_id
                                     ELSE <<"str", s_job_id>>
                       IN  [ok |-> TRUE,
                            job_id |-> job_id,
                            job_url |-> <<"https://aihub.qualcomm.com/jobs/",
                                          job_id>>,
                            status |-> "submitted",
                            device |-> cp_args.device]
                /\ IF cp_args.wait
                   THEN /\ cp_pc' = "wait"
                        /\ UNCHANGED <<cp_stdout, cp_exit_code, cp_uncaught>>
                   ELSE /\ Output(cp_result')
                        /\ CompileReturn
    /\ UNCHANGED <<cp_args, cp_files, cp_downloaded>>
    /\ UNCHANGED cp_polls
    /\ IdleCompileRest

\* The service finishes the job, one way or the other.
JobFinishes ==
    /\ cp_job = "running"
    /\ cp_job' \in {"success", "failed"}
    /\ UNCHANGED <<cp_args, cp_pc, cp_files, cp_result, cp_stdout,
                   cp_uncaught, cp_exit_code, cp_submitted, cp_downloaded>>
    /\ UNCHANGED cp_polls
    /\ IdleCompileRest

\* The most status checks of the wait loop that find the job still running.
MaxPolls == 3

\* do_compile, one turn of the wait loop: a status check, then the exit of
\* the loop or the sleep.
CompilePoll ==
    /\ cp_pc = "wait"
    /\ cp_polls' = cp_polls + 1
    /\ \E raises \in BOOLEAN :
           IF raises
           THEN /\ Propagate("get_status")
                /\ UNCHANGED cp_result
           ELSE LET st == JobStatus(cp_job)
                IN  /\ IF st.success
                       THEN /\ cp_result' = [cp_result EXCEPT !.status = "success"]
                            /\ cp_pc' = "artifacts"
                       ELSE IF ~st.running
                       THEN /\ cp_result' =
                                   [cp_result EXCEPT
                                       !.status = FailedStatus(st.message),
                                       !.ok = FALSE]
                            /\ cp_pc' = "artifacts"
                       ELSE /\ cp_polls < MaxPolls
                            /\ cp_pc' = "wait"
                            /\ UNCHANGED cp_result
                    /\ UNCHANGED <<cp_stdout, cp_exit_code, cp_uncaught>>
    /\ UNCHANGED <<cp_args, cp_files, cp_job, cp_submitted, cp_downloaded>>
    /\ IdleCompileRest

\* do_compile after the wait loop: the download of the artifact when the job
\* succeeded and --out was given, then the result is printed.
CompileArtifacts ==
    /\ cp_pc = "artifacts"
    /\ IF cp_result.ok /\ cp_args.out # << >>
       THEN \E makedirs \in {"ok", "raise"} :
                IF makedirs = "raise"
                THEN /\ Propagate("makedirs")
                     /\ UNCHANGED <<cp_result, cp_files, cp_downloaded>>
                ELSE \E target \in {"raise", "none", "download_raises", "downloaded"} :
                         LET out_file == PathJoin(cp_args.out, s_model_bin)
                         IN  /\ IF target = "downloaded"
                                THEN /\ cp_result' =
                                            cp_result @@ [artifact_path |-> out_file]
                                     /\ cp_files' = cp_files \cup {out_file}
                                     /\ cp_downloaded' = Append(cp_downloaded, out_file)
                                ELSE /\ cp_result' =
                                            IF target = "none" THEN cp_result
                                            ELSE cp_result @@
                                                 [download_error |-> s_sdk_error]
                                     /\ UNCHANGED <<cp_files, cp_downloaded>>
                             /\ Output(cp_result')
                             /\ CompileReturn
       ELSE /\ Output(cp_result)
            /\ CompileReturn
            /\ UNCHANGED <<cp_result, cp_files, cp_downloaded>>
    /\ UNCHANGED <<cp_args, cp_job, cp_submitted>>
    /\ UNCHANGED cp_polls
    /\ IdleCompileRest

\* The states of the job the status and download commands ask about.
JobStates == {"running", "success", "failed"}

\* do_status.
Status ==
    /\ cp_pc = "status"
    /\ \E call \in {"get_job", "get_status", "none"}, job \in JobStates,
          has_running \in BOOLEAN :
           IF call # "none"
           THEN Output([job_id |-> cp_args.job, status |-> "error",
                        success |-> FALSE, error |-> s_sdk_error])
           ELSE LET st == JobStatus(job)
                IN  Output([job_id |-> cp_args.job, status |-> st.message,
                            success |-> st.success,
                            running |-> IF has_running THEN st.running
                                        ELSE FALSE])
    /\ CompileReturn
    /\ UNCHANGED <<cp_args, cp_files, cp_job, cp_result, cp_submitted,
                   cp_downloaded>>
    /\ UNCHANGED cp_polls
    /\ IdleCompileRest

\* do_download.
Download ==
    /\ cp_pc = "download"
    /\ \E call \in {"get_job", "get_status", "makedirs", "get_target_model",
                    "download", "none"},
          job \in JobStates, has_target \in BOOLEAN :
           LET st == JobStatus(job)
               out_file == PathJoin(cp_args.out, s_model_bin)
           IN  IF call \in {"get_job", "get_status"}
               THEN /\ Output([ok |-> FALSE, error |-> s_sdk_error])
                    /\ UNCHANGED <<cp_files, cp_downloaded>>
               ELSE IF ~st.success
               THEN /\ Output([ok |-> FALSE,
                               error |-> <<"Job not done: ", st.message>>])
                    /\ UNCHANGED <<cp_files, cp_downloaded>>
               ELSE IF call \in {"makedirs", "get_target_model"}
               THEN /\ Output([ok |-> FALSE, error |-> s_sdk_error])
                    /\ UNCHANGED <<cp_files, cp_downloaded>>
               ELSE IF ~has_target
               THEN /\ Output([ok |-> FALSE,
                               error |-> "No target model available"])
                    /\ UNCHANGED <<cp_files, cp_downloaded>>
               ELSE IF call = "download"
               THEN /\ Output([ok |-> FALSE, error |-> s_sdk_error])
                    /\ UNCHANGED <<cp_files, cp_downloaded>>
               ELSE /\ Output([ok |-> TRUE, path |-> out_file,
                               job_id |-> cp_args.job])
                    /\ cp_files' = cp_files \cup {out_file}
                    /\ cp_downloaded' = Append(cp_downloaded, out_file)
    /\ CompileReturn
    /\ UNCHANGED <<cp_args, cp_job, cp_result, cp_submitted>>
    /\ UNCHANGED cp_polls
    /\ IdleCompileRest

\* The most job summaries or devices the service lists.
MaxListed == 2

\* do_list_jobs.
ListJobs ==
    /\ cp_pc = "list-jobs"
    /\ \E raises \in BOOLEAN, n \in 0..MaxListed, has_fields \in BOOLEAN :
           IF raises
           THEN Output([count |-> 0, jobs |-> << >>, error |-> s_sdk_error])
           ELSE LET jobs ==
                        [k \in 1..n |->
                            IF has_fields
                            THEN [job_id |-> s_job_id, status |-> "SUCCESS",
                                  name |-> "edgemesh"]
                            ELSE [job_id |-> <<"str", s_job_id>>,
                                  status |-> "unknown", name |-> ""]]
                IN  Output([count |-> Len(jobs), jobs |-> jobs])
    /\ CompileReturn
    /\ UNCHANGED <<cp_args, cp_files, cp_job, cp_result, cp_submitted,
                   cp_downloaded>>
    /\ UNCHANGED cp_polls
    /\ IdleCompileRest

\* do_list_devices.
ListDevices ==
    /\ cp_pc = "list-devices"
    /\ \E raises \in BOOLEAN, n \in 0..MaxListed :
           IF raises
           THEN Output([count |-> 0, devices |-> << >>, error |-> s_sdk_error])
           ELSE LET result ==
                        [k \in 1..n |->
                            [name |-> s_default_device, os |-> "Android"]]
                IN  Output([count |-> Len(result), devices |-> result])
    /\ CompileReturn
    /\ UNCHANGED <<cp_args, cp_files, cp_job, cp_result, cp_submitted,
                   cp_downloaded>>
    /\ UNCHANGED cp_polls
    /\ IdleCompileRest

NextCompile ==
    \/ CompileMain
    \/ CompileResolve
    \/ CompileSubmit
    \/ JobFinishes
    \/ CompilePoll
    \/ CompileArtifacts
    \/ Status
    \/ Download
    \/ ListJobs
    \/ ListDevices

SpecCompile == InitCompile /\ [][NextCompile]_vars

\* The helper is one sequential process that runs until it exits: each of
\* its steps is taken once it can be, and the wait loop, which sleeps five
\* seconds between its status checks, reads the status of a job that has
\* finished.  Nothing makes the service finish the job, so JobFinishes has
\* no fairness.
FairCompile ==
    /\ WF_vars(CompileMain)
    /\ WF_vars(CompileResolve)
    /\ WF_vars(CompileSubmit)
    /\ WF_vars(CompilePoll /\ cp_job # "running")
    /\ WF_vars(CompileArtifacts)
    /\ WF_vars(Status)
    /\ WF_vars(Download)
    /\ WF_vars(ListJobs)
    /\ WF_vars(ListDevices)

SpecCompileFair == InitCompile /\ [][NextCompile]_vars /\ FairCompile

(***************************************************************************)
(* Claims about main() of the batch exporter (checked under Spec)          *)
(***************************************************************************)

\* C4, as stated: when main has returned, the exit code is 0 exactly when
\* some requested model was exported successfully, that is, the run was not
\* a dry run and some ExportResult has success = TRUE.
C4_ExitZeroIffModelExported ==
    pc = "done" =>
        (exit_code = 0 <=>
            (~args.dry_run /\ \E k \in 1..Len(results) : results[k].success))

\* C4, amended: when main has returned, the exit code is 0 or 1, and it is
\* 0 exactly in these runs: --list-available printed the catalog; or a
\* normal run reached the summary and some call of export_model returned
\* success; or a dry run reached the summary and some requested name
\* resolved.
C4_ExitCode ==
    pc = "done" =>
        /\ exit_code \in {0, 1}
        /\ exit_code = 0 <=>
              \/ returned_from = "list_available"
              \/ /\ returned_from = "summary"
                 /\ ~args.dry_run
                 /\ \E k \in 1..Len(attempts) : attempts[k].success
              \/ /\ returned_from = "summary"
                 /\ args.dry_run
                 /\ \E k \in 1..Len(requested_models) :
                        ~Falsy(resolve_model_name(requested_models[k], available))

\* C4 witness: a normal run ended with exit code 0 after one export failed
\* and another succeeded.
C4_Witness ==
    /\ pc = "done" /\ exit_code = 0 /\ ~args.dry_run
    /\ \E j, k \in 1..Len(attempts) :
           attempts[j].ran /\ ~attempts[j].success /\ attempts[k].success

\* C5: once the export loop is entered the run ends only through the
\* summary; the loop appends one result per pass; each result carries the
\* requested name of its position; and at the summary there is exactly one
\* result per requested name, in request order.
C5_OneResultPerRequestedName ==
    /\ pc = "export" => Len(results) = idx - 1
    /\ Len(results) <= Len(requested_models)
    /\ \A k \in 1..Len(results) :
           results[k].requested_name = requested_models[k]
    /\ (pc = "done" /\ requested_models # << >>) => returned_from = "summary"
    /\ returned_from = "summary" => Len(results) = Len(requested_models)

\* C5 witness: the run reached the summary with the first requested name
\* failed in its export and a later name exported.
C5_Witness ==
    /\ returned_from = "summary"
    /\ Len(results) >= 2
    /\ ~results[1].success /\ results[1].error_msg # s_not_found
    /\ results[2].success
    /\ Len(attempts) = 2

\* C6, as stated: a run that ends with a non-zero exit before the export
\* loop ends in the validation step (tooling not configured) or in the
\* discovery step (no models discovered), and in no other step.
C6_OnlyToolingAndNoModelsEndTheRun ==
    (pc = "done" /\ exit_code # 0 /\ returned_from # "summary")
        => returned_from \in {"validate", "discover"}

\* C6, amended: a run that ends with a non-zero exit before the export loop
\* ends in the validation step, in the device selection step (only when no
\* --device was given and auto-selection returned no device) or in the
\* discovery step; such a run has no result, has called export_model never
\* and has left the file system as it was. A --device value is used as
\* given. Every export attempt is made with a non-empty device and a
\* non-empty catalog.
C6_SetupFailures ==
    /\ (pc = "done" /\ exit_code # 0 /\ returned_from # "summary")
           => /\ returned_from \in {"validate", "select_device", "discover"}
              /\ returned_from = "select_device" => args.device = << >>
              /\ results = << >> /\ attempts = << >> /\ fs = EmptyFs
    /\ (pc \in {"discover", "export"} /\ args.device # << >>)
           => device = args.device
    /\ attempts # << >> => (device # << >> /\ available # << >>)

\* C6 witness: the run ended with exit code 1 in the device selection step.
C6_Witness ==
    /\ pc = "done" /\ exit_code = 1 /\ returned_from = "select_device"
    /\ args.device = << >>

\* C8: every ExportResult of the results that has success = TRUE has a
\* resolved_name that is an element of the discovered catalog.
C8_SuccessResolvedInCatalog ==
    \A k \in 1..Len(results) :
        results[k].success => InList(results[k].resolved_name, available)

\* C8 witness: a success was recorded for a requested name that differs
\* from the catalog entry it resolved to.
C8_Witness ==
    /\ Len(results) >= 1
    /\ results[1].success
    /\ results[1].requested_name # results[1].resolved_name
    /\ InList(results[1].resolved_name, available)

\* C10, as stated: no two export attempts of a run are given the same
\* output directory, and no attempt finds files in its output directory
\* when it begins.
C10_OwnDirectoryPerAttempt ==
    /\ \A j, k \in 1..Len(attempts) :
           j # k => attempts[j].output_dir # attempts[k].output_dir
    /\ \A k \in 1..Len(attempts) : ~attempts[k].held_files

\* C10, amended: two export attempts of a run are given the same output
\* directory exactly when they export the same catalog identifier.
C10_OwnDirectoryPerModel ==
    \A j, k \in 1..Len(attempts) :
        (attempts[j].output_dir = attempts[k].output_dir)
            <=> (attempts[j].model_name = attempts[k].model_name)

\* C10 witness: two attempts for different identifiers went to different
\* directories.
C10_Witness ==
    /\ Len(attempts) = 2
    /\ attempts[1].ran /\ attempts[2].ran
    /\ attempts[1].model_name # attempts[2].model_name
    /\ attempts[1].output_dir # attempts[2].output_dir

\* The path with every run of slashes turned into one slash, as the file
\* system reads it.
RECURSIVE CollapseSlashes(_)
CollapseSlashes(p) ==
    IF Len(p) < 2 THEN p
    ELSE IF p[1] = "/" /\ p[2] = "/" THEN CollapseSlashes(Tail(p))
    ELSE <<p[1]>> \o CollapseSlashes(Tail(p))

\* Two paths name one directory for a process whose working directory is
\* Cwd.
SameDirectory(p, q) ==
    CollapseSlashes(AbsPath(p)) = CollapseSlashes(AbsPath(q))

\* C15: in a --dry-run run no export subprocess is started and no directory
\* is created or written; each requested name that resolves is recorded as
\* a success whose output_path names the directory a normal run would export
\* it to, and each name that does not resolve is recorded as the failure
\* "Model not found in qai_hub_models" of a normal run.
C15_DryRunOnlyRecords ==
    (args # << >> /\ args.dry_run) =>
        /\ attempts = << >>
        /\ fs = EmptyFs
        /\ \A i \in 1..Len(results) :
               LET resolved == resolve_model_name(requested_models[i], available)
               IN  IF resolved = None \/ resolved = << >>
                   THEN results[i] =
                            ExportResult(FALSE, requested_models[i],
                                         requested_models[i], device, << >>,
                                         0, s_not_found)
                   ELSE /\ results[i].success
                        /\ results[i].requested_name = requested_models[i]
                        /\ results[i].resolved_name = resolved
                        /\ SameDirectory(results[i].output_path,
                                         OutputDir(args.output_base, resolved))

(***************************************************************************)
(* Claims about export_model (checked under SpecExport)                    *)
(***************************************************************************)

\* The export subprocess of the call ran to completion with a non-zero
\* exit code.
ExitedNonZero ==
    /\ ex_pc = "done"
    /\ ex_call.env.makedirs = "ok"
    /\ ex_call.env.run = "completed"
    /\ ex_call.env.returncode # 0

\* C9, as stated: when the export subprocess exits non-zero, the result is
\* a failure whose error_msg is never longer than 500 characters.
C9_ErrorAtMost500 ==
    ExitedNonZero =>
        /\ ~ex_out.result.success
        /\ Len(ex_out.result.error_msg) <= ERROR_LIMIT

\* C9, amended: when the export subprocess exits non-zero, the result is a
\* failure with an empty output_path; with text the stripped stderr, or
\* the stripped stdout when the stripped stderr is empty, error_msg is text
\* itself when text has at most 500 characters, and otherwise the first 500
\* characters of text followed by "...", so it is never longer than 503.
C9_ErrorTruncatedWithEllipsis ==
    ExitedNonZero =>
        LET e == Strip(ex_call.env.stderr)
            o == Strip(ex_call.env.stdout)
            text == IF e # << >> THEN e ELSE o
            msg == ex_out.result.error_msg
        IN  /\ ~ex_out.result.success
            /\ ex_out.result.output_path = << >>
            /\ Len(msg) <= ERROR_LIMIT + 3
            /\ Len(text) <= ERROR_LIMIT => msg = text
            /\ Len(text) > ERROR_LIMIT =>
                   /\ Len(msg) = ERROR_LIMIT + 3
                   /\ \A k \in 1..ERROR_LIMIT : msg[k] = text[k]
                   /\ \A k \in 1..3 : msg[ERROR_LIMIT + k] = "."

\* C9 witness: the subprocess exited non-zero with more than 500 characters
\* on stderr and the message kept has 503.
C9_Witness ==
    /\ ExitedNonZero
    /\ Len(Strip(ex_call.env.stderr)) > ERROR_LIMIT
    /\ Len(ex_out.result.error_msg) = ERROR_LIMIT + 3

\* The export subprocess of the call exceeded timeout_seconds.
TimedOut ==
    /\ ex_pc = "done"
    /\ ex_call.env.makedirs = "ok"
    /\ ex_call.env.run = "timeout"

\* os.makedirs or subprocess.run raised an exception other than a timeout
\* during the call.
RaisedException ==
    /\ ex_pc = "done"
    /\ \/ ex_call.env.makedirs = "raise"
       \/ ex_call.env.run = "raise"

\* C11: when the export subprocess exceeds timeout_seconds the result has
\* success = false, an empty output_path and the error_msg "Timeout after
\* <timeout_seconds>s", which contains the configured timeout value; when
\* os.makedirs, subprocess.run or shutil.copytree raises another exception
\* the result has success = false and the exception's message as error_msg;
\* every call of export_model ends with an ExportResult returned, none with
\* an exception raised.
C11_TimeoutAndExceptionsBecomeFailures ==
    ex_pc = "done" =>
        LET r == ex_out.result
            e == ex_call.env
        IN  /\ r.success \in BOOLEAN
            /\ r.resolved_name = ex_call.model_name
            /\ TimedOut =>
                   /\ ~r.success
                   /\ r.output_path = << >>
                   /\ r.error_msg =
                          s_timeout_after
                          \o IntToStr(ex_call.timeout_seconds) \o <<"s">>
                   /\ Contains(r.error_msg, IntToStr(ex_call.timeout_seconds))
            /\ RaisedException =>
                   /\ ~r.success
                   /\ r.output_path = << >>
                   /\ r.error_msg = e.exc
            /\ e.copytree = "raise" /\ ~r.success /\ e.run = "completed" =>
                   r.error_msg = e.exc /\ r.output_path = << >>

\* C11 witness: a subprocess that timed out under the default timeout gave
\* a failure whose message holds "1800".
C11_Witness ==
    /\ TimedOut
    /\ ex_call.timeout_seconds = DEFAULT_TIMEOUT
    /\ ~ex_out.result.success
    /\ Contains(ex_out.result.error_msg, <<"1", "8", "0", "0">>)

(***************************************************************************)
(* Claims about resolve_model_name (checked under SpecResolve)             *)
(***************************************************************************)

\* C2, as stated: whenever the requested name is an element of the catalog,
\* the resolver returns exactly the requested name.
C2_VerbatimCatalogNameReturned ==
    (rs_pc = "done" /\ InList(rs_requested, rs_available))
        => rs_result = rs_requested

\* C2, amended: whenever the requested name is an element of the catalog
\* and is already in normalized form (no upper-case letter, hyphen or
\* period), the resolver returns exactly the requested name, also when the
\* alias table maps that name to another catalog entry.
C2_NormalizedCatalogNameReturned ==
    (/\ rs_pc = "done"
     /\ InList(rs_requested, rs_available)
     /\ \A i \in 1..Len(rs_requested) :
            /\ rs_requested[i] \notin {"-", "."}
            /\ \A j \in 1..26 : rs_requested[i] # UPPERCASE[j])
        => rs_result = rs_requested

\* C2 witness: "controlnet" is asked for, is in the catalog, and is also an
\* alias key whose mapped value "controlnet_canny" is in the catalog; the
\* exact name was returned.
C2_Witness ==
    /\ rs_pc = "done"
    /\ rs_requested = k_controlnet
    /\ InList(k_controlnet, rs_available)
    /\ InList(m_controlnet_canny, rs_available)
    /\ rs_result = k_controlnet

\* The request is a MODEL_ALIASES key, in its hyphen or its underscore
\* spelling, whose mapped value is in the catalog.
IsSpellingOf(requested, i) ==
    requested \in {HyphenSpelling(MODEL_ALIASES[i][1]),
                   UnderscoreSpelling(MODEL_ALIASES[i][1])}

\* C3, as stated: for every alias key whose mapped value is in the catalog,
\* resolving either spelling of the key returns the mapped value, whatever
\* else the catalog holds.
C3_AliasKeyReturnsMappedValue ==
    rs_pc = "done" =>
        \A i \in 1..Len(MODEL_ALIASES) :
            (IsSpellingOf(rs_requested, i)
             /\ InList(MODEL_ALIASES[i][2], rs_available))
                => rs_result = MODEL_ALIASES[i][2]

\* C3, amended: for every alias key whose mapped value is in the catalog,
\* resolving either spelling of the key returns the mapped value, unless
\* the catalog also holds the key with every hyphen and period turned into
\* an underscore: then that entry is returned.
C3_AliasKeyReturnsMappedValueUnlessExact ==
    rs_pc = "done" =>
        \A i \in 1..Len(MODEL_ALIASES) :
            (IsSpellingOf(rs_requested, i)
             /\ InList(MODEL_ALIASES[i][2], rs_available))
                => LET exact == Replace(UnderscoreSpelling(MODEL_ALIASES[i][1]),
                                        ".", "_")
                   IN  rs_result = IF InList(exact, rs_available)
                                   THEN exact
                                   ELSE MODEL_ALIASES[i][2]

\* C3 witness: "sd_v1.5", the underscore spelling of the key "sd-v1.5", was
\* resolved to "stable_diffusion_v1_5" in a catalog that holds other
\* entries too.
C3_Witness ==
    /\ rs_pc = "done"
    /\ rs_requested = UnderscoreSpelling(k_sd_v1_5)
    /\ rs_requested # k_sd_v1_5
    /\ Len(rs_available) > 2
    /\ rs_result = m_stable_diffusion_v1_5

\* The request has no relation to the catalog: its normalized form is no
\* entry, no alias it spells maps to an entry, and its normalized form and
\* an entry are never one inside the other.
NoRelation(requested, catalog) ==
    LET normalized == Normalize(requested)
    IN  /\ \A j \in 1..Len(catalog) : catalog[j] # normalized
        /\ \A i \in 1..Len(MODEL_ALIASES) :
               MODEL_ALIASES[i][1] \in {AliasKey(requested), normalized}
                   => \A j \in 1..Len(catalog) :
                          catalog[j] # MODEL_ALIASES[i][2]
        /\ \A j \in 1..Len(catalog) :
               /\ ~Contains(catalog[j], normalized)
               /\ ~Contains(normalized, catalog[j])

\* C13: a requested name whose normalized form is not in the catalog, that
\* spells no alias whose mapped value is in the catalog, and whose normalized
\* form has no substring relation in either direction with any catalog
\* entry, resolves to None; every result other than None is an entry of the
\* catalog.
C13_NoRelationGivesNone ==
    rs_pc = "done" =>
        /\ NoRelation(rs_requested, rs_available) => rs_result = None
        /\ rs_result # None =>
               \E j \in 1..Len(rs_available) : rs_available[j] = rs_result

\* C13 witness: "not_a_real_model" was looked for in a catalog of several
\* entries, none related to it, and None came back.
C13_Witness ==
    /\ rs_pc = "done"
    /\ rs_requested = n_not_a_real_model
    /\ Len(rs_available) > 1
    /\ NoRelation(rs_requested, rs_available)
    /\ rs_result = None

(***************************************************************************)
(* Claims about auto_select_device (checked under SpecDevice)              *)
(***************************************************************************)

\* C1: whenever the listing command exits 0 and exactly one device line of
\* its output contains both "Snapdragon X Elite" and "Windows", the device
\* name returned is the one parsed from that line, whatever other lines
\* the listing holds and in whatever order.
C1_FullySpecificLineSelected ==
    (dv_pc = "done" /\ dv_run.kind = "completed" /\ dv_run.returncode = 0)
        => LET devices == ParseDevices(Split(Strip(dv_run.stdout), "\n"))
               full == {i \in 1..Len(devices) :
                            /\ Contains(devices[i][2], w_Snapdragon_X_Elite)
                            /\ Contains(devices[i][2], w_Windows)}
           IN  Cardinality(full) = 1
                   => dv_result[1] = devices[CHOOSE i \in full : TRUE][1]

\* The line is a table separator: a rule drawn with "-", "+" and "|".
IsSeparatorLine(line) ==
    /\ line # << >>
    /\ \A k \in 1..Len(line) : line[k] \in {"-", "+", "|"}

\* The line is the header of the device table.
IsHeaderLine(line) == line \in {l_header, l_header_piped}

\* The listing holds no device: each of its lines is blank, a header or a
\* table separator.
HeaderOnlyListing(stdout) ==
    LET lines == Split(stdout, "\n")
    IN  \A k \in 1..Len(lines) :
            \/ Strip(lines[k]) = << >>
            \/ IsHeaderLine(Strip(lines[k]))
            \/ IsSeparatorLine(Strip(lines[k]))

\* C14: when the listing command exits non-zero, or exits 0 with a listing
\* that is empty or holds only blank, header and table-separator lines,
\* auto_select_device returns an empty device name together with a reason,
\* never a device name.
C14_NoDeviceFromHeaderOnlyListing ==
    (/\ dv_pc = "done"
     /\ dv_run.kind = "completed"
     /\ dv_run.returncode # 0 \/ HeaderOnlyListing(dv_run.stdout))
        => dv_result[1] = << >> /\ dv_result[2] # ""

(***************************************************************************)
(* Claims about the compile helper (SpecCompile, SpecCompileFair)          *)
(***************************************************************************)

\* C7: no exception raised by a call into the vendor SDK (get_devices,
\* submit_compile_job, get_job, get_status, get_target_model, download,
\* get_job_summaries) ever leaves a command of the compile helper: a command
\* that has ended has not crashed on an SDK call, and it printed one JSON
\* object on standard output.
C7_NoSdkExceptionPropagates ==
    /\ cp_uncaught \notin SdkCalls
    /\ cp_pc \in {"exit", "crashed"} /\ cp_uncaught # "makedirs"
           => Len(cp_stdout) = 1

\* The job do_compile waits for has reached a terminal status.
JobTerminal == cp_job \in {"success", "failed"}

\* What the wait loop has established once it is left, and what the download
\* after it may do.
WaitLoopOutcome ==
    /\ cp_pc = "artifacts" =>
           \/ /\ cp_job = "success"
              /\ cp_result.ok
              /\ cp_result.status = "success"
           \/ /\ cp_job = "failed"
              /\ ~cp_result.ok
              /\ cp_result.status = FailedStatus(s_job_message)
    /\ cp_args.command = "compile" /\ cp_downloaded # << >> =>
           cp_job = "success"

\* One tick of the wait loop: every step at the loop that is not the
\* service's makes one status check; it stays in the loop exactly when the
\* job is still running and no exception was raised.
WaitLoopTick ==
    cp_pc = "wait" /\ cp_job' = cp_job =>
        /\ cp_polls' = cp_polls + 1
        /\ cp_pc' = "wait" => cp_job = "running"
        /\ JobTerminal => cp_pc' \in {"artifacts", "crashed"}

\* C12: the wait loop of compile --wait makes one status check per tick,
\* keeps polling while the job is running, leaves the loop at the first tick
\* whose status is terminal, reports 'success' with ok true for a job that
\* succeeded and 'failed: ...' with ok false otherwise, downloads an
\* artifact only after a success, and, once the job has reached a terminal
\* status, eventually prints its result on standard output.
C12_WaitLoopEmitsResult ==
    /\ [][WaitLoopTick]_vars
    /\ []WaitLoopOutcome
    /\ (cp_pc = "wait" /\ JobTerminal)
           ~> (cp_pc = "exit" /\ cp_stdout = <<cp_result>>)

\* The --model value names a local file, not a model on the service.
IsFilePath(model) == model \in {f_model_onnx, f_net_onnx, f_m_p}

\* C16: a compile command whose --model value is the path of a local file
\* that does not exist never calls submit_compile_job and ends by printing
\* {ok: false, error: "Model file not found: ..."} (or the failure of the
\* import or of the device lookup that come first); every model submitted
\* is a model identifier of the service or a file that exists.
C16_MissingFileNeverSubmitted ==
    (cp_pc # "idle" /\ cp_args.command = "compile") =>
        /\ \A i \in 1..Len(cp_submitted) :
               \/ ~IsFilePath(cp_submitted[i].model)
               \/ cp_submitted[i].model \in cp_files
        /\ (IsFilePath(cp_args.model) /\ cp_args.model \notin cp_files) =>
               /\ cp_submitted = << >>
               /\ cp_pc = "exit" =>
                      /\ Len(cp_stdout) = 1
                      /\ ~cp_stdout[1].ok
                      /\ cp_stdout[1].error \in
                             {<<"Model file not found: ", cp_args.model>>,
                              <<"No device found: ", cp_args.device>>,
                              "qai_hub not installed. Run: pip install qai-hub"}

=============================================================================
